---- MODULE Spec2Model ----
(***************************************************************************)
(* Model of codestare.compiletools: the Rewriter (compile.py), which       *)
(* rewrites package declarations and import statements of .proto files,    *)
(* the CompileOption flag enum (options.py), and the Compiler (compile.py) *)
(* with the build command that drives it (cmd.py).                         *)
(*                                                                         *)
(* Text is modelled character by character: file contents, package names   *)
(* and paths are strings, and the regular expressions of the source are    *)
(* operators that scan them the way Python's re module does.               *)
(***************************************************************************)
EXTENDS Integers, Sequences, FiniteSets, TLC

VARIABLES
    disk,           \* the input tree on disk: path -> text of every .proto file
    dirs_on_disk,   \* the directories that exist in the input tree
    _contents,      \* Rewriter._contents: path -> text, or None
    _roots,         \* Rewriter._roots: path -> discovery root, or None
    _root_package,  \* Rewriter._root_package
    _out_root,      \* Rewriter._out_root
    fs_files,       \* the output tree: path -> text of every file in it
    fs_dirs,        \* the output tree: the directories in it
    warned,         \* what the last fix_imports reported: set of <<path, statement>>
    last,           \* the last call made on the Rewriter, with its outcome
    stage,          \* how far the calls since the last read follow the pipeline
    nops,           \* number of calls made so far
    pkg_root,       \* remap check: the root package
    pkg_decl,       \* remap check: the declared package
    pkg_out,        \* remap check: the results of applying the remap, in order
    opt_tokens,     \* options: the list of strings given to from_string_list
    opt_iter_all,   \* options: iterating CompileOption yields the combined members too
    opt_result,     \* options: the outcome of the call made
    opt_flag,       \* options: the CompileOption value a property or method is called on
    invocation,     \* compiler: the compile call or build command made, with its arguments
    protoc_calls,   \* compiler: the calls of Compiler.call made so far, in order
    interpreter,    \* compiler: how the Python process stands: returned, exited, raised
    files_in        \* compiler: directory -> the plugins whose generated files are in it

vars == <<disk, dirs_on_disk, _contents, _roots, _root_package, _out_root,
          fs_files, fs_dirs, warned, last, stage, nops,
          pkg_root, pkg_decl, pkg_out, opt_tokens, opt_iter_all, opt_result, opt_flag,
          invocation, protoc_calls, interpreter, files_in>>

rewriter_vars == <<disk, dirs_on_disk, _contents, _roots, _root_package, _out_root,
                   fs_files, fs_dirs, warned, last, stage, nops>>

pkg_vars == <<pkg_root, pkg_decl, pkg_out>>

opt_vars == <<opt_tokens, opt_iter_all, opt_result, opt_flag>>

compile_vars == <<invocation, protoc_calls, interpreter, files_in>>

\* None, where a string is expected
None == "<None>"

\* None, where a dict is expected
NoDict == [n \in {"<None>"} |-> "<None>"]

\* {}
EmptyDict == [n \in {} |-> ""]

(***************************************************************************)
(* Strings                                                                 *)
(***************************************************************************)
\* F(v), with v evaluated once and F given its value
Given(v, F(_)) == CHOOSE r \in {F(x) : x \in {v}} : TRUE

Char(s, i) == SubSeq(s, i, i)

From(s, i) == SubSeq(s, i, Len(s))

\* s[i:i+len(lit)] == lit
LitAt(s, i, lit) == i + Len(lit) - 1 <= Len(s) /\ SubSeq(s, i, i + Len(lit) - 1) = lit

StartsWith(s, lit) == LitAt(s, 1, lit)

EndsWith(s, lit) == Len(lit) <= Len(s) /\ LitAt(s, Len(s) - Len(lit) + 1, lit)

\* Python's `p in s` for strings: p is a substring of s
Contains(s, p) == \E i \in 1..(Len(s) + 1) : LitAt(s, i, p)

\* the least member of a non-empty set of numbers
Least(S) == Given(S, LAMBDA T : CHOOSE x \in T : \A y \in T : x <= y)

\* the k-th member of a set of numbers, in increasing order
Nth(S, k) == CHOOSE x \in S : Cardinality({y \in S : y <= x}) = k

\* Python's s.split(c) for a one-character separator: the pieces between the
\* occurrences of c
Split(s, c) ==
    Given({j \in 1..Len(s) : Char(s, j) = c},
          LAMBDA at : [k \in 1..(Cardinality(at) + 1) |->
                         SubSeq(s,
                                IF k = 1 THEN 1 ELSE Nth(at, k - 1) + 1,
                                IF k = Cardinality(at) + 1 THEN Len(s) ELSE Nth(at, k) - 1)])

\* Python's c.join(parts)
RECURSIVE Join(_, _)
Join(parts, c) ==
    IF Len(parts) = 0 THEN ""
    ELSE IF Len(parts) = 1 THEN parts[1]
    ELSE Given(Tail(parts), LAMBDA rest : parts[1] \o c \o Join(rest, c))

Alphabet == "abcdefghijklmnopqrstuvwxyzABCDEFGHIJKLMNOPQRSTUVWXYZ0123456789_"

\* the characters \w matches
WordChars == {Char(Alphabet, i) : i \in 1..Len(Alphabet)}

\* the index after the longest run of \w characters that starts at i
WordEnd(s, i) ==
    IF i > Len(s) THEN i
    ELSE Least({j \in i..(Len(s) + 1) : j = Len(s) + 1 \/ Char(s, j) \notin WordChars})

\* s matches \w+ in its entirety
IsWord(s) == Len(s) > 0 /\ WordEnd(s, 1) = Len(s) + 1

(***************************************************************************)
(* package_regex and Rewriter._fix_package                                 *)
(***************************************************************************)
NoMatch == [matched |-> FALSE]

\* the index after the longest (?:\.\w+)* that starts at i
RECURSIVE SubPackagesEnd(_, _)
SubPackagesEnd(s, i) ==
    Given(WordEnd(s, i + 1),
          LAMBDA e : IF LitAt(s, i, ".") /\ e > i + 1 THEN SubPackagesEnd(s, e) ELSE i)

\* package_regex = (\w+)((?:\.\w+)*) matched at index i of s: its two groups and
\* the index after it
package_regex(s, i) ==
    Given(WordEnd(s, i),
          LAMBDA e1 :
             IF e1 = i THEN NoMatch
             ELSE Given(SubPackagesEnd(s, e1),
                        LAMBDA e2 : [matched |-> TRUE, g1 |-> SubSeq(s, i, e1 - 1),
                                     g2 |-> SubSeq(s, e1, e2 - 1), end |-> e2]))

\* check_packages = functools.partial(re.match, package_regex): a match at the
\* start of the value, which need not reach its end
check_packages(value) == package_regex(value, 1)

\* itertools.dropwhile(lambda p: p in root_package, parts)
RECURSIVE DropWhileInRoot(_, _)
DropWhileInRoot(parts, root_package) ==
    IF Len(parts) > 0 /\ Contains(root_package, parts[1])
    THEN Given(Tail(parts), LAMBDA rest : DropWhileInRoot(rest, root_package))
    ELSE parts

\* dropwhile with a test for equality with a dot-separated component of the root
RECURSIVE DropWhileRootComponent(_, _)
DropWhileRootComponent(parts, root_package) ==
    IF Len(parts) > 0 /\ \E k \in 1..Len(Split(root_package, ".")) :
                            Split(root_package, ".")[k] = parts[1]
    THEN Given(Tail(parts), LAMBDA rest : DropWhileRootComponent(rest, root_package))
    ELSE parts

\* _fix_package with the root components dropped by component equality
fix_package_by_component(root_package, match) ==
    Given(<<match.g1>> \o Split(From(match.g2, 2), "."),
          LAMBDA chain : Join(Given(DropWhileRootComponent(chain, root_package),
                                    LAMBDA kept : <<root_package>> \o kept), "."))

\* Rewriter._fix_package(match), self._root_package given as root_package:
\* sub_pkgs = sub_pkgs[1:].split('.'), then the components that are substrings of
\* the root package are dropped from the front and the root package is prepended
_fix_package(root_package, match) ==
    Given(<<match.g1>> \o Split(From(match.g2, 2), "."),
          LAMBDA chain : Join(Given(DropWhileInRoot(chain, root_package),
                                    LAMBDA kept : <<root_package>> \o kept), "."))

(***************************************************************************)
(* Paths (pathlib)                                                         *)
(***************************************************************************)
\* path.relative_to(root)
relative_to(path, root) == From(path, Len(root) + 2)

\* path.name
name(path) == Given(Split(path, "/"), LAMBDA parts : parts[Len(parts)])

\* the non-empty members of parts, in order (pathlib drops empty segments)
NonEmpty(parts) == SelectSeq(parts, LAMBDA part : part # "")

\* every directory above path, path excluded: what mkdir(parents=True) makes sure of
Ancestors(path) ==
    Given(Split(path, "/"),
          LAMBDA parts : {Join(SubSeq(parts, 1, k), "/") : k \in 1..(Len(parts) - 1)})

(***************************************************************************)
(* Rewriter._IMPORT and Rewriter._PACKAGE: both are anchored with ^ and $  *)
(* under re.MULTILINE and match no newline, so a match is a whole line.    *)
(***************************************************************************)
Lines(content) == Split(content, "\n")

\* the index after the longest (?:\w+/)* that starts at i
RECURSIVE ImportDirsEnd(_, _)
ImportDirsEnd(s, i) ==
    Given(WordEnd(s, i),
          LAMBDA e : IF e > i /\ LitAt(s, e, "/") THEN ImportDirsEnd(s, e + 1) ELSE i)

\* the groups of _IMPORT on a line whose file name starts at d and ends before w
ImportGroups(line, d, w) ==
    IF StartsWith(line, "import \"") /\ w > d
       /\ LitAt(line, w, ".proto\";") /\ w + 7 = Len(line)
    THEN [matched |-> TRUE, path |-> SubSeq(line, 9, d - 1),
          file |-> SubSeq(line, d, w + 5), text |-> line]
    ELSE NoMatch

\* _IMPORT = ^import "((?:\w+/)*)(\w+\.proto)";$ on one line
\* groups: path (the directory prefix) and file
_IMPORT(line) ==
    Given(ImportDirsEnd(line, 9),
          LAMBDA d : Given(WordEnd(line, d), LAMBDA w : ImportGroups(line, d, w)))

\* _PACKAGE = ^package (\w+)((?:\.\w+)*);$ on one line
_PACKAGE(line) ==
    Given(package_regex(line, 9),
          LAMBDA m : IF StartsWith(line, "package ") /\ m.matched
                        /\ m.end = Len(line) /\ LitAt(line, m.end, ";")
                     THEN m
                     ELSE NoMatch)

\* _IMPORT.finditer(content): the matches, in order
import_statements(content) ==
    Given(Lines(content),
          LAMBDA lines : SelectSeq([k \in 1..Len(lines) |-> _IMPORT(lines[k])],
                                   LAMBDA m : m.matched))

\* _PACKAGE.finditer(content): the matches, in order
package_statements(content) ==
    Given(Lines(content),
          LAMBDA lines : SelectSeq([k \in 1..Len(lines) |-> _PACKAGE(lines[k])],
                                   LAMBDA m : m.matched))

(***************************************************************************)
(* Effective packages                                                      *)
(***************************************************************************)
\* Rewriter._get_package(path): _PACKAGE.search finds the first package statement
_get_package(contents, roots, root_package, path) ==
    Given(package_statements(contents[path]),
          LAMBDA package :
             IF Len(package) > 0
             THEN _fix_package(root_package, package[1])
             ELSE Join(Split(relative_to(path, roots[path]), "/"), "."))

\* Rewriter.calculated_packages.get(path): the package of a path of the working
\* set, None for any other path
calculated_packages(contents, roots, root_package, path) ==
    IF contents # NoDict /\ path \in DOMAIN contents
    THEN _get_package(contents, roots, root_package, path)
    ELSE None

\* Rewriter._fix_import(root, match): the new quoted path, or None
_fix_import(contents, roots, root_package, root, match) ==
    Given(calculated_packages(contents, roots, root_package,
                              root \o "/" \o match.path \o match.file),
          LAMBDA import_package :
             IF import_package # None /\ import_package # ""
             THEN Join(Given(Split(import_package, "."),
                             LAMBDA parts : parts \o <<match.file>>), "/")
             ELSE None)

\* Rewriter._fix_import_declaration(root, match): str(None) is "None"
_fix_import_declaration(contents, roots, root_package, root, match) ==
    Given(_fix_import(contents, roots, root_package, root, match),
          LAMBDA fixed : "import \"" \o (IF fixed = None THEN "None" ELSE fixed) \o "\";")

(***************************************************************************)
(* fix_imports                                                             *)
(***************************************************************************)
\* the import statements of every file that has one
imports_of(contents) ==
    Given([p \in DOMAIN contents |-> import_statements(contents[p])],
          LAMBDA all : [p \in {q \in DOMAIN all : Len(all[q]) > 0} |-> all[p]])

\* process_imports of fix_imports: the dict comprehension keys on the file p alone,
\* so each statement of a file replaces the entry of the statement before it and
\* the file is left with its last import statement only
process_imports(contents, roots, root_package) ==
    Given(imports_of(contents),
          LAMBDA statements :
             [p \in DOMAIN statements |->
                [statement |-> statements[p][Len(statements[p])],
                 fixed |-> _fix_import(contents, roots, root_package, roots[p],
                                       statements[p][Len(statements[p])])]])

\* failed of fix_imports
failed_imports(process) == {p \in DOMAIN process : process[p].fixed = None}

\* _IMPORT.sub(partial(_fix_import_declaration, root), content)
sub_imports(contents, roots, root_package, root, content) ==
    Join(Given(Lines(content),
               LAMBDA lines :
                  [k \in 1..Len(lines) |->
                     Given(_IMPORT(lines[k]),
                           LAMBDA m : IF m.matched
                                      THEN _fix_import_declaration(contents, roots,
                                                                   root_package, root, m)
                                      ELSE lines[k])]), "\n")

(***************************************************************************)
(* fix_packages                                                            *)
(***************************************************************************)
\* the pattern text matches at index i, a dot of the pattern standing for any
\* character but a newline (the root package is put in the regex unescaped)
WildAt(s, i, pattern) ==
    /\ i + Len(pattern) - 1 <= Len(s)
    /\ \A k \in 1..Len(pattern) :
          IF Char(pattern, k) = "." THEN Char(s, i + k - 1) # "\n"
          ELSE Char(s, i + k - 1) = Char(pattern, k)

\* make_regex(declared_package) matched at index i of s: the index after the match
\* of (?:<root package>\.)?(<g1>)(<g2, dots escaped>), or 0
make_regex(root_package, declared_package, s, i) ==
    IF WildAt(s, i, root_package)
       /\ LitAt(s, i + Len(root_package), "." \o declared_package.g1 \o declared_package.g2)
    THEN i + Len(root_package) + 1 + Len(declared_package.g1 \o declared_package.g2)
    ELSE IF LitAt(s, i, declared_package.g1 \o declared_package.g2)
    THEN i + Len(declared_package.g1 \o declared_package.g2)
    ELSE 0

\* regex.sub(self._fix_package, content), from index i on: the leftmost match is
\* replaced and the scan goes on after it
RECURSIVE regex_sub(_, _, _, _)
regex_sub(root_package, declared_package, content, i) ==
    Given({j \in i..Len(content) : make_regex(root_package, declared_package, content, j) > 0},
          LAMBDA at :
             IF at = {} THEN From(content, i)
             ELSE Given(make_regex(root_package, declared_package, content, Least(at)),
                        LAMBDA e : SubSeq(content, i, Least(at) - 1)
                                   \o _fix_package(root_package, declared_package)
                                   \o regex_sub(root_package, declared_package, content, e)))

\* the groups of a match, which decide the regex make_regex builds from it
Groups(m) == [g1 |-> m.g1, g2 |-> m.g2]

\* unique_package_regexes: one per distinct declared package of the working set
unique_package_regexes(contents) ==
    UNION {{Groups(statements[k]) : k \in 1..Len(statements)} :
             statements \in {package_statements(contents[p]) : p \in DOMAIN contents}}

\* the orders in which a set can be iterated
Orderings(S) ==
    {order \in [1..Cardinality(S) -> S] :
        \A i, j \in 1..Cardinality(S) : order[i] = order[j] => i = j}

\* the loop of fix_packages over the regexes from the k-th of order on
RECURSIVE sub_packages(_, _, _, _)
sub_packages(root_package, order, k, contents) ==
    IF k > Len(order) THEN contents
    ELSE Given([f \in DOMAIN contents |-> regex_sub(root_package, order[k], contents[f], 1)],
               LAMBDA substituted : sub_packages(root_package, order, k + 1, substituted))

(***************************************************************************)
(* write                                                                   *)
(***************************************************************************)
\* out_dir with the package taken from the text on disk instead of the content held
out_dir_as_read(contents, roots, root_package, out_root, file) ==
    Join(Given(Split(_get_package([p \in DOMAIN contents |-> disk[p]], roots,
                                  root_package, file), "."),
               LAMBDA parts : <<out_root>> \o NonEmpty(parts)), "/")

\* out_dir of write: output_root / '/'.join(package.split('.'))
out_dir(contents, roots, root_package, out_root, file) ==
    Join(Given(Split(_get_package(contents, roots, root_package, file), "."),
               LAMBDA parts : <<out_root>> \o NonEmpty(parts)), "/")

\* out_dir / file.name
out_file(contents, roots, root_package, out_root, file) ==
    out_dir(contents, roots, root_package, out_root, file) \o "/" \o name(file)

(***************************************************************************)
(* CompileOption (options.py): a Flag, its value an integer                *)
(***************************************************************************)
\* a & b on flag values
RECURSIVE BitAnd(_, _)
BitAnd(a, b) ==
    IF a = 0 \/ b = 0 THEN 0
    ELSE (a % 2) * (b % 2) + 2 * BitAnd(a \div 2, b \div 2)

\* a | b on flag values
BitOr(a, b) == a + b - BitAnd(a, b)

JAVA == 1
JSLIBRARY == 2
JSINDIVIDUAL == 4
CSHARP == 8
CPP == 16
PYTHON_BETTER_PROTO == 32
PYTHON_MYPY == 64
PYTHON_PROTOPLUS == 128
PYTHON_BASIC == 256
JAVASCRIPT == BitOr(JSINDIVIDUAL, JSLIBRARY)
PYTHON == BitOr(BitOr(BitOr(PYTHON_MYPY, PYTHON_BETTER_PROTO), PYTHON_PROTOPLUS), PYTHON_BASIC)
ALL == BitOr(BitOr(BitOr(BitOr(JAVA, JAVASCRIPT), CSHARP), CPP), PYTHON)

\* iteration over the class: the members in definition order; from Python 3.11 on
\* the members of more than one bit are aliases and iteration leaves them out
members(iter_all) ==
    <<JAVA, JSLIBRARY, JSINDIVIDUAL, CSHARP, CPP, PYTHON_BETTER_PROTO, PYTHON_MYPY,
      PYTHON_PROTOPLUS, PYTHON_BASIC>>
    \o (IF iter_all THEN <<JAVASCRIPT, PYTHON, ALL>> ELSE <<>>)

\* CompileOption.protoc_plugin_name: None for a combined option
protoc_plugin_name(o) ==
    IF o = JAVA THEN "java"
    ELSE IF o = JSLIBRARY THEN "js"
    ELSE IF o = JSINDIVIDUAL THEN "js"
    ELSE IF o = CSHARP THEN "csharp"
    ELSE IF o = CPP THEN "cpp"
    ELSE IF o = PYTHON_BETTER_PROTO THEN "python_betterproto"
    ELSE IF o = PYTHON_MYPY THEN "mypy"
    ELSE IF o = PYTHON_BASIC THEN "python"
    ELSE IF o = PYTHON_PROTOPLUS THEN "proto-plus"
    ELSE None

\* CompileOption.arguments
arguments(o) ==
    IF o = ALL THEN <<"all">>
    ELSE IF o = JAVASCRIPT THEN <<"js">>
    ELSE (IF BitAnd(o, JAVA) # 0 THEN <<"java">> ELSE <<>>)
         \o (IF BitAnd(o, CSHARP) # 0 THEN <<"cs">> ELSE <<>>)
         \o (IF BitAnd(o, CPP) # 0 THEN <<"cpp">> ELSE <<>>)
         \o (IF BitAnd(o, PYTHON_MYPY) # 0 THEN <<"mypy">> ELSE <<>>)
         \o (IF BitAnd(o, PYTHON_BETTER_PROTO) # 0 THEN <<"better">> ELSE <<>>)
         \o (IF BitAnd(o, PYTHON_PROTOPLUS) # 0 THEN <<"plus">> ELSE <<>>)
         \o (IF BitAnd(o, PYTHON_BASIC) # 0 THEN <<"py">> ELSE <<>>)

\* CompileOption.is_composite: value & (value - 1); for the value 0 that is 0 & -1
is_composite(o) == IF o = 0 THEN 0 ELSE BitAnd(o, o - 1)

\* disjunct without the test that leaves the combined options out
disjunct_with_composites(iter_all, o) ==
    SelectSeq(members(iter_all), LAMBDA m : BitAnd(m, o) # 0)

\* CompileOption.disjunct
disjunct(iter_all, o) ==
    SelectSeq(members(iter_all), LAMBDA m : BitAnd(m, o) # 0 /\ is_composite(m) = 0)

\* reduce(operator.and_, flags) of a list of flags that is not empty
RECURSIVE reduce_and(_)
reduce_and(flags) ==
    IF Len(flags) = 1 THEN flags[1]
    ELSE Given(reduce_and(SubSeq(flags, 1, Len(flags) - 1)),
               LAMBDA acc : BitAnd(acc, flags[Len(flags)]))

\* the outcome of a call: it returned value, or raised
Returns(value) == [outcome |-> "returned", value |-> value]

Raises(exception) == [outcome |-> exception, value |-> 0]

\* CompileOption.from_str(value)
from_str(iter_all, value) ==
    Given(SelectSeq(members(iter_all),
                    LAMBDA o : \E k \in 1..Len(arguments(o)) : arguments(o)[k] = value),
          LAMBDA matching_options :
             IF Len(matching_options) = 0
             THEN \* reduce() of empty iterable with no initial value
                  Raises("TypeError")
             ELSE Given(reduce_and(matching_options),
                        LAMBDA matching : IF matching = 0 THEN Raises("ValueError")
                                          ELSE Returns(matching)))

\* CompileOption.from_string_list(values): the first from_str that raises ends the
\* list comprehension
from_string_list(iter_all, values) ==
    Given([k \in 1..Len(values) |-> from_str(iter_all, values[k])],
          LAMBDA flags :
             IF \E k \in 1..Len(flags) : flags[k].outcome # "returned"
             THEN flags[Least({k \in 1..Len(flags) : flags[k].outcome # "returned"})]
             ELSE IF Len(flags) = 0
             THEN \* reduce() of empty iterable with no initial value
                  Raises("TypeError")
             ELSE Returns(reduce_and([k \in 1..Len(flags) |-> flags[k].value])))

\* kwargs[key] = value on a dict held as its items in insertion order
set_item(kwargs, key, value) ==
    IF \E i \in 1..Len(kwargs) : kwargs[i][1] = key
    THEN [i \in 1..Len(kwargs) |-> IF kwargs[i][1] = key THEN <<key, value>> ELSE kwargs[i]]
    ELSE Append(kwargs, <<key, value>>)

\* kwargs of parameters once the option has added its own
parameters_kwargs(o, kwargs) ==
    IF o = JSLIBRARY THEN set_item(kwargs, "library", "protobuf_library")
    ELSE IF o = JSINDIVIDUAL THEN set_item(kwargs, "import_style", "commonjs")
    ELSE kwargs

\* args of parameters, a set, once the option has added its own
parameters_args(o, args) ==
    IF o = JSLIBRARY \/ o = JSINDIVIDUAL THEN args \cup {"binary"} ELSE args

\* CompileOption.parameters(*args, **kwargs), with kwargs and args as the option
\* left them and order the order the set args is iterated in
parameters(o, kwargs, order) ==
    IF is_composite(o) # 0
    THEN Raises("ValueError")
    ELSE Returns(Join([i \in 1..Len(kwargs) |-> kwargs[i][1] \o "=" \o kwargs[i][2]]
                      \o order, ","))

\* no option is being converted
OptIdle ==
    /\ opt_tokens = <<>>
    /\ opt_iter_all = FALSE
    /\ opt_result = [outcome |-> "idle", value |-> 0]
    /\ opt_flag = 0

(***************************************************************************)
(* Compiler (compile.py) and the build command CompileBase (cmd.py)        *)
(***************************************************************************)
\* CompileOption.format_out(output, *params): the parameters and the output joined
\* by a colon, an empty one left out; seed is the order the hash seed of the
\* process gives the strings of a set
format_out(o, output, params, seed) ==
    Given(parameters(o, parameters_kwargs(o, <<>>),
                     SelectSeq(seed, LAMBDA a : a \in parameters_args(o, params))),
          LAMBDA joined : Join(NonEmpty(<<joined.value, output>>), ":"))

\* Compiler.call: the exit code of protoc, which is started unless dry_run is set
call_result(dry_run, protoc_returns) == IF ~dry_run THEN protoc_returns ELSE 0

\* Compiler.call without the test of the exit code
exits_never(result) == FALSE

\* Compiler.call: sys.exit(result) for an exit code other than 0
exits(result) == result # 0

\* Compiler.call(*proto_files, dry_run=dry_run, **{key: value}) for an option
call(option, key, value, dry_run, protoc_returns) ==
    [option |-> option, key |-> key, value |-> value, dry_run |-> dry_run,
     started |-> ~dry_run, result |-> call_result(dry_run, protoc_returns)]

\* the loop of Compiler.compile over the options from the k-th of todo on;
\* protoc_returns[n] is the exit code the n-th protoc process gives
RECURSIVE compile_loop(_, _, _, _, _, _, _, _)
compile_loop(todo, k, params, output, dry_run, protoc_returns, seed, calls) ==
    IF k > Len(todo)
    THEN [calls |-> calls, outcome |-> "returned", code |-> 0]
    ELSE Given(call(todo[k], protoc_plugin_name(todo[k]) \o "_out",
                    format_out(todo[k], output, params, seed),
                    dry_run, protoc_returns[Len(calls) + 1]),
               LAMBDA made :
                  IF exits(made.result)
                  THEN [calls |-> Append(calls, made), outcome |-> "exited",
                        code |-> made.result]
                  ELSE compile_loop(todo, k + 1, params, output, dry_run,
                                    protoc_returns, seed, Append(calls, made)))

\* Compiler.compile(*protoc_files, options, quiet, plugin_params, output, dry_run);
\* options None and the empty list are both the empty list here, plugin_params
\* None and '' both ''
compile(iter_all, options, quiet, plugin_params, output, dry_run, protoc_returns, seed) ==
    IF Len(options) = 0
    THEN \* No options specified, no compilation will take place
         [calls |-> <<>>, outcome |-> "returned", code |-> 0]
    ELSE Given(from_string_list(iter_all, options),
               LAMBDA flag :
                  IF flag.outcome # "returned"
                  THEN [calls |-> <<>>, outcome |-> flag.outcome, code |-> 0]
                  ELSE compile_loop(disjunct(iter_all, flag.value), 1,
                                    (IF plugin_params # "" THEN {plugin_params} ELSE {})
                                       \cup (IF quiet THEN {"quiet"} ELSE {}),
                                    output, dry_run, protoc_returns, seed, <<>>))

\* the plugins whose files the protoc processes of calls generated: a process that
\* was started and gave 0
generated(calls) ==
    {calls[k].key : k \in {n \in 1..Len(calls) : calls[n].started /\ calls[n].result = 0}}

\* no compile call and no build command has been made
CompileIdle ==
    /\ invocation = [entry |-> "", options |-> <<>>, quiet |-> FALSE, plugin_params |-> "",
                     dry_run |-> FALSE, force |-> FALSE]
    /\ protoc_calls = <<>>
    /\ interpreter = [outcome |-> "idle", code |-> 0]
    /\ files_in = [d \in {"build_lib", "tmp"} |-> {}]

(***************************************************************************)
(* The input trees and root packages the sessions are run on               *)
(***************************************************************************)
MaxOps == 4

RootPackages == {"my.proto"}

\* the declared package of in/a/x.proto (None: no package statement)
XPackages == {None, "b.c"}

\* the declared package of in/a/y.proto
YPackages == {"a", "x.b.c"}

\* the quoted paths of the imports of in/a/y.proto: a/x.proto is in the tree,
\* a/z.proto is not
YImports == {<<"a/x.proto">>, <<"a/z.proto", "a/x.proto">>, <<"a/x.proto", "a/z.proto">>}

\* a third file of the tree, at a path an import rewritten once may name
ZPaths == {None, "in/a/x/proto/x.proto"}

\* the lists of directories read is called with
ReadDirs == {<<"in">>, <<"in", "in2">>, <<"in", "nodir">>, <<"empty", "in">>}

RECURSIVE ImportLines(_)
ImportLines(imports) ==
    IF Len(imports) = 0 THEN ""
    ELSE "import \"" \o imports[1] \o "\";\n" \o ImportLines(Tail(imports))

\* the text of a .proto file with this package statement and these imports
Content(package, imports) ==
    (IF package = None THEN "" ELSE "package " \o package \o ";\n")
    \o ImportLines(imports)

Tree(xpkg, ypkg, imports, z) ==
    LET paths == {"in/a/x.proto", "in/a/y.proto", "in2/a/x.proto"}
                 \cup (IF z = None THEN {} ELSE {z})
    IN [p \in paths |->
          IF p = "in/a/x.proto" THEN Content(xpkg, <<>>)
          ELSE IF p = "in/a/y.proto" THEN Content(ypkg, imports)
          ELSE IF p = "in2/a/x.proto" THEN Content("a", <<>>)
          ELSE Content(None, <<>>)]

\* every directory of the tree: those above a file, and the empty directory "empty"
TreeDirs(tree) == {"empty"} \cup UNION {Ancestors(p) : p \in DOMAIN tree}

(***************************************************************************)
(* Rewriter: state after construction, and its methods                     *)
(***************************************************************************)
\* the remap check is not running
PkgIdle == pkg_root = "" /\ pkg_decl = "" /\ pkg_out = <<>>

\* Rewriter.__init__(root_package, output_root="out"), over a tree on disk
Init ==
    /\ \E xpkg \in XPackages, ypkg \in YPackages, imports \in YImports, z \in ZPaths :
          \E tree \in {Tree(xpkg, ypkg, imports, z)} :
             /\ disk = tree
             /\ dirs_on_disk = TreeDirs(tree)
    /\ _contents = NoDict
    /\ _roots = NoDict
    /\ _root_package \in RootPackages
    /\ _out_root = "out"
    /\ fs_files = EmptyDict
    /\ fs_dirs = {}
    /\ warned = {}
    /\ last = [op |-> "__init__", arg |-> "", raised |-> FALSE]
    /\ stage = "UNINITIALIZED"
    /\ nops = 0
    /\ PkgIdle
    /\ OptIdle
    /\ CompileIdle

\* what every call records: the call and whether it raised
Called(op, arg, raised) ==
    /\ nops' = nops + 1
    /\ last' = [op |-> op, arg |-> arg, raised |-> raised]
    /\ UNCHANGED <<disk, dirs_on_disk, _root_package, _out_root, pkg_vars, opt_vars, compile_vars>>

\* a call that raised: nothing but the record of the call changes
Raised(op, arg) ==
    /\ Called(op, arg, TRUE)
    /\ UNCHANGED <<_contents, _roots, fs_files, fs_dirs, warned, stage>>

\* find_proto_files that does not keep to the directory it is given
find_proto_files_anywhere(root) == {p \in DOMAIN disk : EndsWith(p, ".proto")}

\* find_proto_files(root): root.glob("**/*.proto")
find_proto_files(root) ==
    {p \in DOMAIN disk : StartsWith(p, root \o "/") /\ EndsWith(p, ".proto")}

\* found of read: the files of every supplied directory that is one
found(dirs) ==
    [s \in {dirs[k] : k \in {j \in 1..Len(dirs) : dirs[j] \in dirs_on_disk}} |->
       find_proto_files(s)]

\* no_proto_dirs without the test for a directory that holds no .proto file
no_proto_dirs_missing_only(dirs, files) ==
    {dirs[k] : k \in {j \in 1..Len(dirs) : dirs[j] \notin DOMAIN files}}

\* no_proto_dirs of read, given found
no_proto_dirs(dirs, files) ==
    {dirs[k] : k \in {j \in 1..Len(dirs) :
                        dirs[j] \notin DOMAIN files \/ files[dirs[j]] = {}}}

\* the root a path is mapped to: the last of dirs it was found under
root_of(dirs, files, path) ==
    dirs[CHOOSE k \in 1..Len(dirs) :
           /\ dirs[k] \in DOMAIN files /\ path \in files[dirs[k]]
           /\ \A j \in (k + 1)..Len(dirs) :
                 ~(dirs[j] \in DOMAIN files /\ path \in files[dirs[j]])]

\* Rewriter.read(*dirs)
Read(dirs) ==
    /\ nops < MaxOps
    /\ \E files \in {found(dirs)} :
          IF no_proto_dirs(dirs, files) # {}
          THEN \* AssertionError
               Raised("read", Join(dirs, ","))
          ELSE /\ Called("read", Join(dirs, ","), FALSE)
               /\ _roots' = [path \in UNION {files[s] : s \in DOMAIN files} |->
                               root_of(dirs, files, path)]
               /\ _contents' = [path \in UNION {files[s] : s \in DOMAIN files} |->
                                  disk[path]]
               /\ stage' = "READ"
               /\ warned' = {}
               /\ UNCHANGED <<fs_files, fs_dirs>>

\* Rewriter.fix_imports()
FixImports ==
    /\ nops < MaxOps
    /\ IF _contents = NoDict
       THEN \* AttributeError: 'NoneType' object has no attribute 'items'
            Raised("fix_imports", "")
       ELSE \E process \in {process_imports(_contents, _roots, _root_package)} :
            \E failed \in {failed_imports(process)} :
               /\ Called("fix_imports", "", FALSE)
               /\ UNCHANGED <<_roots, fs_files, fs_dirs>>
               /\ IF failed # {}
                  THEN /\ warned' = {<<p, process[p].statement.text>> : p \in failed}
                       /\ UNCHANGED _contents
                       /\ stage' = IF stage = "READ" THEN "READ" ELSE "OUT_OF_ORDER"
                  ELSE /\ warned' = {}
                       /\ _contents' =
                             [f \in DOMAIN _contents |->
                                sub_imports(_contents, _roots, _root_package, _roots[f],
                                            _contents[f])]
                       /\ stage' = IF stage = "READ" THEN "IMPORTS_FIXED"
                                   ELSE "OUT_OF_ORDER"

\* Rewriter.fix_packages(): the set of regexes is iterated in an order the hash
\* seed of the run decides
FixPackages ==
    /\ nops < MaxOps
    /\ IF _contents = NoDict
       THEN \* AttributeError: 'NoneType' object has no attribute 'values'
            Raised("fix_packages", "")
       ELSE \E order \in Orderings(unique_package_regexes(_contents)) :
               /\ Called("fix_packages", "", FALSE)
               /\ _contents' = sub_packages(_root_package, order, 1, _contents)
               /\ stage' = IF stage = "IMPORTS_FIXED" THEN "PACKAGES_FIXED"
                           ELSE "OUT_OF_ORDER"
               /\ warned' = {}
               /\ UNCHANGED <<_roots, fs_files, fs_dirs>>

\* the path write puts every file of the working set at
targets(contents, roots, root_package, out_root) ==
    [f \in DOMAIN contents |-> out_file(contents, roots, root_package, out_root, f)]

\* Rewriter.write(dry_run): the directory is made and the file opened for writing
\* before dry_run is looked at; of the files with the same output path, the one
\* the dict yields last (the order glob found them in) is the one that stays
Write(dry_run) ==
    /\ nops < MaxOps
    /\ IF _contents = NoDict
       THEN \* AttributeError: 'NoneType' object has no attribute 'items'
            Raised("write", IF dry_run THEN "dry_run=True" ELSE "dry_run=False")
       ELSE \E target \in {targets(_contents, _roots, _root_package, _out_root)} :
            \E last_written \in SUBSET DOMAIN _contents :
               /\ \A f \in DOMAIN _contents : \E g \in last_written :
                     /\ target[g] = target[f]
                     /\ \A h \in last_written : target[h] = target[g] => h = g
               /\ Called("write", IF dry_run THEN "dry_run=True" ELSE "dry_run=False", FALSE)
               /\ fs_dirs' = fs_dirs \cup UNION {Ancestors(target[f]) : f \in DOMAIN _contents}
               /\ fs_files' =
                     [t \in DOMAIN fs_files \cup {target[f] : f \in DOMAIN _contents} |->
                        IF \E f \in last_written : target[f] = t
                        THEN IF dry_run THEN ""
                             ELSE _contents[CHOOSE f \in last_written : target[f] = t]
                        ELSE fs_files[t]]
               /\ stage' = IF stage = "PACKAGES_FIXED" /\ ~dry_run THEN "WRITTEN"
                           ELSE "OUT_OF_ORDER"
               /\ warned' = {}
               /\ UNCHANGED <<_contents, _roots>>

\* any call, in any order, while the session has calls left
Next ==
    \/ \E dirs \in ReadDirs : Read(dirs)
    \/ FixImports
    \/ FixPackages
    \/ \E dry_run \in BOOLEAN : Write(dry_run)

Spec == Init /\ [][Next]_vars

(***************************************************************************)
(* The package remap on its own: _fix_package applied to a declared        *)
(* package, and applied again to what it returned                          *)
(***************************************************************************)
PkgRoots == {"my.proto", "my", "a.b", "p"}

PkgDecls == {"a", "a.b", "b.a", "my", "my.a", "my.proto", "my.proto.a", "proto.my.x",
             "pro.x", "o", "o.x", "x.o", "p", "x.a.b", "x"}

\* the rewriter is not running
RewriterIdle ==
    /\ disk = EmptyDict /\ dirs_on_disk = {}
    /\ _contents = NoDict /\ _roots = NoDict
    /\ _root_package = None /\ _out_root = "out"
    /\ fs_files = EmptyDict /\ fs_dirs = {}
    /\ warned = {}
    /\ last = [op |-> "__init__", arg |-> "", raised |-> FALSE]
    /\ stage = "UNINITIALIZED"
    /\ nops = 0

InitPkg ==
    /\ pkg_root \in PkgRoots
    /\ pkg_decl \in PkgDecls
    /\ pkg_out = <<>>
    /\ RewriterIdle
    /\ OptIdle
    /\ CompileIdle

\* the remap of a dotted name: the name is matched by package_regex, as
\* check_packages does, and the match is given to _fix_package
remap(root_package, dotted) == _fix_package(root_package, check_packages(dotted))

\* the declared package is remapped
Remap ==
    /\ pkg_out = <<>>
    /\ pkg_out' = <<remap(pkg_root, pkg_decl)>>
    /\ UNCHANGED <<pkg_root, pkg_decl, rewriter_vars, opt_vars, compile_vars>>

\* the remapped package is remapped again
RemapAgain ==
    /\ Len(pkg_out) = 1
    /\ pkg_out' = Append(pkg_out, remap(pkg_root, pkg_out[1]))
    /\ UNCHANGED <<pkg_root, pkg_decl, rewriter_vars, opt_vars, compile_vars>>

NextPkg == Remap \/ RemapAgain

SpecPkg == InitPkg /\ [][NextPkg]_vars

(***************************************************************************)
(* Package remap: claims                                                   *)
(***************************************************************************)
\* the dot-separated components of a dotted name
Components(dotted) == {Split(dotted, ".")[k] : k \in 1..Len(Split(dotted, "."))}

\* C2: remapping the remapped package again yields the same dotted package
C2_RemapIdempotent ==
    Len(pkg_out) = 2 => pkg_out[2] = pkg_out[1]

\* C6: the remapped package begins with the root package, followed by either the
\* end of the string or a dot and a non-empty component
C6_RootPrefix ==
    Len(pkg_out) >= 1 =>
       /\ StartsWith(pkg_out[1], pkg_root)
       /\ \/ Len(pkg_out[1]) = Len(pkg_root)
          \/ /\ LitAt(pkg_out[1], Len(pkg_root) + 1, ".")
             /\ WordEnd(pkg_out[1], Len(pkg_root) + 2) > Len(pkg_root) + 2

\* C6 witness: a declared package whose first component is dropped was remapped to
\* the root package followed by a dot and the component that was kept
C6_Witness ==
    /\ pkg_root = "my.proto" /\ pkg_decl = "o.x"
    /\ pkg_out = <<"my.proto.x">>

(***************************************************************************)
(* Rewriter sessions: claims                                               *)
(***************************************************************************)
\* the step is a call of op that returned
Returned(op) == nops' = nops + 1 /\ last'.op = op /\ ~last'.raised

\* the file an import statement of file f refers to: discovery root of f / quoted
\* directory prefix / quoted file name
referenced(f, statement) == _roots[f] \o "/" \o statement.path \o statement.file

\* the import statements of the working set that refer to a file outside it, each
\* with the file it is in
unresolved_imports ==
    {fs \in UNION {{<<f, import_statements(_contents[f])[k]>> :
                      k \in 1..Len(import_statements(_contents[f]))} :
                   f \in DOMAIN _contents} :
       referenced(fs[1], fs[2]) \notin DOMAIN _contents}

\* C1: after read, fix_imports, fix_packages and write(dry_run=False), every import
\* of a file f that refers to a file g of the working set is written, in the output
\* of f, as the path g was written at, relative to the output root
C1_ImportConsistency ==
    stage = "WRITTEN" =>
       \A f \in DOMAIN _contents :
          \A k \in 1..Len(Lines(disk[f])) :
             \A g \in {q \in DOMAIN _contents :
                         /\ _IMPORT(Lines(disk[f])[k]).matched
                         /\ q = referenced(f, _IMPORT(Lines(disk[f])[k]))} :
                \E target \in {targets(_contents, _roots, _root_package, _out_root)} :
                   fs_files[target[f]] = _contents[f] =>
                      Lines(fs_files[target[f]])[k]
                         = "import \"" \o relative_to(target[g], _out_root) \o "\";"

\* C3: when some import statement of the working set refers to a file outside it,
\* fix_imports leaves the content of every file as it was
C3_AllOrNothingImports ==
    [][(Returned("fix_imports") /\ _contents # NoDict /\ unresolved_imports # {})
          => _contents' = _contents]_vars

\* C4: write(dry_run=True) creates no directory and creates or changes no file
C4_DryRunNoOp ==
    [][(Returned("write") /\ last'.arg = "dry_run=True")
          => fs_files' = fs_files /\ fs_dirs' = fs_dirs]_vars

\* C7: the effective package of a file without a package statement is the root
\* package followed by the directories of its path relative to its discovery root
C7_PathDerivedPackage ==
    _contents # NoDict =>
       \A f \in {q \in DOMAIN _contents : Len(package_statements(_contents[q])) = 0} :
          \E parts \in {Split(relative_to(f, _roots[f]), "/")} :
             calculated_packages(_contents, _roots, _root_package, f)
                = Join(<<_root_package>> \o SubSeq(parts, 1, Len(parts) - 1), ".")

\* C8: the effective package of a file that declares a package of one word c that
\* is not a component of the root package P is P.c
C8_SingleComponentPackage ==
    _contents # NoDict =>
       \A f \in {q \in DOMAIN _contents : Len(package_statements(_contents[q])) > 0} :
          \E package \in {package_statements(_contents[f])[1]} :
             (package.g2 = "" /\ package.g1 \notin Components(_root_package))
                => calculated_packages(_contents, _roots, _root_package, f)
                      = _root_package \o "." \o package.g1

\* C9: fix_imports reports every import statement that refers to a file outside the
\* working set, with the file it is in, whatever its position in the file
C9_UnresolvedDetection ==
    [][(Returned("fix_imports") /\ _contents # NoDict /\ unresolved_imports # {})
          => /\ \A fs \in unresolved_imports : <<fs[1], fs[2].text>> \in warned'
             /\ stage' # "IMPORTS_FIXED"]_vars

\* C10: fix_imports called again after fix_imports and fix_packages leaves the
\* content of every file as fix_packages left it
C10_RepeatedFixImports ==
    [][(Returned("fix_imports") /\ stage = "PACKAGES_FIXED") => _contents' = _contents]_vars

(***************************************************************************)
(* Option strings converted to a CompileOption                             *)
(***************************************************************************)
MaxTokens == 2

Tokens == {"java", "cs", "cpp", "mypy", "better", "plus", "py", "all", "js", "zzz"}

InitOpt ==
    /\ opt_tokens \in UNION {[1..n -> Tokens] : n \in 0..MaxTokens}
    /\ opt_iter_all \in BOOLEAN
    /\ opt_result = [outcome |-> "pending", value |-> 0]
    /\ opt_flag = 0
    /\ RewriterIdle
    /\ PkgIdle
    /\ CompileIdle

\* CompileOption.from_string_list(opt_tokens) is called
FromStringList ==
    /\ opt_result.outcome = "pending"
    /\ opt_result' = from_string_list(opt_iter_all, opt_tokens)
    /\ UNCHANGED <<opt_tokens, opt_iter_all, opt_flag, rewriter_vars, pkg_vars, compile_vars>>

NextOpt == FromStringList

SpecOpt == InitOpt /\ [][NextOpt]_vars

(***************************************************************************)
(* Options: claims                                                         *)
(***************************************************************************)
\* a | b | ... of the flags from_str returns for the tokens
RECURSIVE union_of(_, _)
union_of(iter_all, tokens) ==
    IF Len(tokens) = 0 THEN 0
    ELSE BitOr(from_str(iter_all, tokens[1]).value, union_of(iter_all, Tail(tokens)))

\* C5: for a list of tokens that is not empty and whose tokens from_str all
\* converts, from_string_list returns the flag with the bits of every from_str(t);
\* for py and mypy it has two atomic components, with the plugins python and mypy
C5_OptionComposition ==
    (/\ opt_result.outcome \notin {"pending", "idle"}
     /\ Len(opt_tokens) > 0
     /\ \A k \in 1..Len(opt_tokens) :
           from_str(opt_iter_all, opt_tokens[k]).outcome = "returned")
    => /\ opt_result.outcome = "returned"
       /\ opt_result.value = union_of(opt_iter_all, opt_tokens)
       /\ opt_tokens = <<"py", "mypy">> =>
             \E parts \in {disjunct(opt_iter_all, opt_result.value)} :
                /\ Len(parts) = 2
                /\ {protoc_plugin_name(parts[k]) : k \in 1..Len(parts)} = {"python", "mypy"}

(***************************************************************************)
(* The root package of a session: the constructor, the setter and          *)
(* _get_package under the root package they leave                          *)
(***************************************************************************)
\* what is given as root_package: None, strings package_regex matches at their
\* start, in their entirety or not, and strings it does not match
RootArgs == {None, "", "my.proto", "a.b!", "a b", "!a"}

\* Rewriter.root_package (setter), current the value stored before (None while
\* the attribute was never set): None is ignored, a value check_packages does not
\* match raises AssertionError, any other value is stored
root_package_setter(current, value) ==
    IF value = None THEN [raised |-> FALSE, root_package |-> current]
    ELSE IF ~check_packages(value).matched THEN [raised |-> TRUE, root_package |-> current]
    ELSE [raised |-> FALSE, root_package |-> value]

\* Rewriter._get_package(path) as a call: _fix_package reads self._root_package,
\* an AttributeError while the attribute was never set
_get_package_call(contents, roots, root_package, path) ==
    IF Len(package_statements(contents[path])) > 0 /\ root_package = None
    THEN <<"AttributeError", "">>
    ELSE <<"returned", _get_package(contents, roots, root_package, path)>>

\* Rewriter(root_package, "out") raised: there is no Rewriter to call
NotConstructed == last.op = "__init__" /\ last.raised

\* Rewriter.__init__(root_package, "out") over the tree on disk
InitRoot ==
    /\ \E xpkg \in XPackages :
          \E tree \in {Tree(xpkg, "a", <<"a/x.proto">>, None)} :
             /\ disk = tree
             /\ dirs_on_disk = TreeDirs(tree)
    /\ \E value \in RootArgs :
          \E set \in {root_package_setter(None, value)} :
             /\ _root_package = set.root_package
             /\ last = [op |-> "__init__", arg |-> value, raised |-> set.raised]
    /\ _contents = NoDict
    /\ _roots = NoDict
    /\ _out_root = "out"
    /\ fs_files = EmptyDict
    /\ fs_dirs = {}
    /\ warned = {}
    /\ stage = "UNINITIALIZED"
    /\ nops = 0
    /\ PkgIdle
    /\ OptIdle
    /\ CompileIdle

\* rewriter.root_package = value
SetRootPackage(value) ==
    /\ nops < MaxOps
    /\ ~NotConstructed
    /\ \E set \in {root_package_setter(_root_package, value)} :
          /\ _root_package' = set.root_package
          /\ last' = [op |-> "root_package", arg |-> value, raised |-> set.raised]
    /\ nops' = nops + 1
    /\ UNCHANGED <<disk, dirs_on_disk, _contents, _roots, _out_root, fs_files, fs_dirs,
                   warned, stage, pkg_vars, opt_vars, compile_vars>>

\* rewriter.read(*dirs)
ReadRoot(dirs) == ~NotConstructed /\ Read(dirs)

\* rewriter._get_package(path), for a path of the working set
GetPackage(path) ==
    /\ nops < MaxOps
    /\ ~NotConstructed
    /\ _contents # NoDict
    /\ path \in DOMAIN _contents
    /\ \E package \in {_get_package_call(_contents, _roots, _root_package, path)} :
          /\ pkg_out' = package
          /\ last' = [op |-> "_get_package", arg |-> path,
                      raised |-> package[1] # "returned"]
    /\ pkg_root' = _root_package
    /\ pkg_decl' = path
    /\ nops' = nops + 1
    /\ UNCHANGED <<disk, dirs_on_disk, _contents, _roots, _root_package, _out_root,
                   fs_files, fs_dirs, warned, stage, opt_vars, compile_vars>>

\* the paths _get_package is asked for
PackagePaths == {"in/a/x.proto", "in/a/y.proto", "in2/a/x.proto"}

NextRoot ==
    \/ \E value \in RootArgs : SetRootPackage(value)
    \/ \E dirs \in ReadDirs : ReadRoot(dirs)
    \/ \E path \in PackagePaths : GetPackage(path)

SpecRoot == InitRoot /\ [][NextRoot]_vars

(***************************************************************************)
(* Root package: claims                                                    *)
(***************************************************************************)
\* the value is word(.word)* from its first character to its last
MatchesGrammar(value) ==
    check_packages(value).matched /\ check_packages(value).end = Len(value) + 1

\* the package a file declares, or the directories of its path under its root
declared_or_path_package(f) ==
    IF Len(package_statements(_contents[f])) > 0
    THEN package_statements(_contents[f])[1].g1 \o package_statements(_contents[f])[1].g2
    ELSE Join(Given(Split(relative_to(f, _roots[f]), "/"),
                    LAMBDA parts : SubSeq(parts, 1, Len(parts) - 1)), ".")

\* C11: setting root_package to a string that is not word(.word)* in its entirety
\* raises and leaves the stored root package as it was
C11_RootPackageValidation ==
    [][(nops' = nops + 1 /\ last'.op = "root_package" /\ last'.arg # None
        /\ ~MatchesGrammar(last'.arg))
          => last'.raised /\ _root_package' = _root_package]_vars

\* C12: a Rewriter is constructed when the root package given is empty or None, and
\* under no root package the effective package of a file is the package it
\* declares, or the one derived from its path, unchanged
C12_UnsetRootIdentity ==
    /\ (last.op = "__init__" /\ last.arg \in {None, ""}) => ~last.raised
    /\ (last.op = "_get_package" /\ _root_package = None)
          => pkg_out = <<"returned", declared_or_path_package(pkg_decl)>>

(***************************************************************************)
(* Rewriter sessions: read, the order of the passes, write                 *)
(***************************************************************************)
\* the directories a call of read was given
dirs_of(made) == Split(made.arg, ",")

\* the .proto files on disk under one of the directories
proto_files_under(dirs) ==
    {p \in DOMAIN disk : /\ EndsWith(p, ".proto")
                         /\ \E k \in 1..Len(dirs) : StartsWith(p, dirs[k] \o "/")}

\* C13: read given a root that is not a directory, or one without a .proto file
\* under it, raises and leaves the working set and the root mapping as they were
C13_ReadFailsAtomically ==
    [][(/\ nops' = nops + 1 /\ last'.op = "read"
        /\ \E k \in 1..Len(dirs_of(last')) :
              \/ dirs_of(last')[k] \notin dirs_on_disk
              \/ proto_files_under(<<dirs_of(last')[k]>>) = {})
          => last'.raised /\ _contents' = _contents /\ _roots' = _roots]_vars

\* C13 witness: read raised for a missing directory given beside one with .proto
\* files, in a session that had a working set
C13_Witness ==
    /\ last = [op |-> "read", arg |-> "in,nodir", raised |-> TRUE]
    /\ _contents # NoDict

\* C14: a read that returns leaves exactly the .proto files under the directories
\* of this call in the working set and the root mapping, each with its text on disk
\* and a root it lies under
C14_ReadReplaces ==
    [][(nops' = nops + 1 /\ last'.op = "read" /\ ~last'.raised)
          => \E under \in {proto_files_under(dirs_of(last'))} :
                /\ DOMAIN _contents' = under
                /\ DOMAIN _roots' = under
                /\ \A p \in under :
                      /\ _contents'[p] = disk[p]
                      /\ StartsWith(p, _roots'[p] \o "/")
                      /\ \E k \in 1..Len(dirs_of(last')) : dirs_of(last')[k] = _roots'[p]]_vars

\* C14 witness: read returned in a session that had written a text rewritten from
\* an earlier working set
C14_Witness ==
    /\ last.op = "read" /\ ~last.raised
    /\ \E t \in DOMAIN fs_files :
          fs_files[t] # "" /\ \A p \in DOMAIN disk : disk[p] # fs_files[t]
    /\ \A p \in DOMAIN _contents : _contents[p] = disk[p]

placed_at(f) ==
    Join(NonEmpty(Split(_out_root \o "/"
                        \o Join(Split(calculated_packages(_contents, _roots,
                                                          _root_package, f), "."), "/")
                        \o "/" \o name(f), "/")), "/")

\* C16: write(dry_run=False) leaves, for every file of the working set, a file at
\* output root / effective package as a path / file name, in directories that
\* exist, holding the content of the working set placed there
C16_WritePlacement ==
    [][(nops' = nops + 1 /\ last'.op = "write" /\ last'.arg = "dry_run=False"
        /\ ~last'.raised)
          => \A f \in DOMAIN _contents :
                /\ placed_at(f) \in DOMAIN fs_files'
                /\ Ancestors(placed_at(f)) \subseteq fs_dirs'
                /\ \E g \in DOMAIN _contents :
                      placed_at(g) = placed_at(f) /\ fs_files'[placed_at(f)] = _contents[g]
                /\ (\A g \in DOMAIN _contents : placed_at(g) = placed_at(f) => g = f)
                      => fs_files'[placed_at(f)] = _contents[f]]_vars

\* C16 witness: write(dry_run=False) put the content held for in/a/y.proto, which
\* declares package a, under my/proto/a of the output root
C16_Witness ==
    /\ last = [op |-> "write", arg |-> "dry_run=False", raised |-> FALSE]
    /\ _contents # NoDict
    /\ "out/my/proto/a/y.proto" \in DOMAIN fs_files
    /\ fs_files["out/my/proto/a/y.proto"] = _contents["in/a/y.proto"]
    /\ fs_files["out/my/proto/a/y.proto"] # ""

(***************************************************************************)
(* Properties and methods called on a CompileOption value                  *)
(***************************************************************************)
\* the values of CompileOption: every combination of the nine flags, and none
FlagValues == 0..ALL

\* the positional arguments parameters is called with
ParamArgs == {{}, {"x"}, {"readable_imports"}}

\* the keyword arguments parameters is called with, in the order given
ParamKwargs == {<<>>, <<<<"k", "v">>>>, <<<<"library", "mine">>, <<"k", "v">>>>}

\* a call and its outcome
Outcome(op, result) == [op |-> op, outcome |-> result.outcome, value |-> result.value]

InitFlag ==
    /\ opt_flag \in FlagValues
    /\ opt_iter_all \in BOOLEAN
    /\ opt_tokens = <<>>
    /\ opt_result = [op |-> "", outcome |-> "pending", value |-> 0]
    /\ RewriterIdle
    /\ PkgIdle
    /\ CompileIdle

\* opt_flag.disjunct
Disjunct ==
    /\ opt_result.outcome = "pending"
    /\ opt_result' = Outcome("disjunct", Returns(disjunct(opt_iter_all, opt_flag)))
    /\ UNCHANGED <<opt_tokens, opt_iter_all, opt_flag, rewriter_vars, pkg_vars, compile_vars>>

\* opt_flag.parameters(*args, **kwargs): the set of args is iterated in an order
\* the hash seed of the run decides
Parameters(args, kwargs) ==
    /\ opt_result.outcome = "pending"
    /\ \E order \in Orderings(parameters_args(opt_flag, args)) :
          opt_result' = Outcome("parameters",
                                parameters(opt_flag, parameters_kwargs(opt_flag, kwargs),
                                           order))
    /\ UNCHANGED <<opt_tokens, opt_iter_all, opt_flag, rewriter_vars, pkg_vars, compile_vars>>

\* opt_flag.protoc_plugin_name
PluginName ==
    /\ opt_result.outcome = "pending"
    /\ opt_result' = Outcome("protoc_plugin_name", Returns(protoc_plugin_name(opt_flag)))
    /\ UNCHANGED <<opt_tokens, opt_iter_all, opt_flag, rewriter_vars, pkg_vars, compile_vars>>

\* CompileOption.from_str(token)
FromStr(token) ==
    /\ opt_result.outcome = "pending"
    /\ opt_tokens' = <<token>>
    /\ opt_result' = Outcome("from_str", from_str(opt_iter_all, token))
    /\ UNCHANGED <<opt_iter_all, opt_flag, rewriter_vars, pkg_vars, compile_vars>>

NextFlag ==
    \/ Disjunct
    \/ \E args \in ParamArgs, kwargs \in ParamKwargs : Parameters(args, kwargs)
    \/ PluginName
    \/ \E token \in Tokens : FromStr(token)

SpecFlag == InitFlag /\ [][NextFlag]_vars

(***************************************************************************)
(* CompileOption values: claims                                            *)
(***************************************************************************)
\* the flags of one bit, in the order the class defines them
AtomicFlags ==
    <<JAVA, JSLIBRARY, JSINDIVIDUAL, CSHARP, CPP, PYTHON_BETTER_PROTO, PYTHON_MYPY,
      PYTHON_PROTOPLUS, PYTHON_BASIC>>

\* the value has exactly one bit set
OneBit(v) == \E k \in 1..Len(AtomicFlags) : AtomicFlags[k] = v

\* C17: disjunct of a value is the list of the one-bit flags whose bit is in the
\* value, in definition order; for the value from_str returns for all it is every
\* one-bit flag
C17_DisjunctExact ==
    /\ opt_result.op = "disjunct"
          => opt_result.value = SelectSeq(AtomicFlags, LAMBDA a : BitAnd(a, opt_flag) = a)
    /\ (opt_result.op = "from_str" /\ opt_tokens = <<"all">>
        /\ opt_result.outcome = "returned")
          => disjunct(opt_iter_all, opt_result.value) = AtomicFlags

\* C17 witness: disjunct was taken of a value of several bits that is none of the
\* named combinations
C17_Witness ==
    /\ opt_result.op = "disjunct"
    /\ opt_flag = BitOr(BitOr(JAVA, JSLIBRARY), PYTHON_MYPY)
    /\ opt_result.value = <<JAVA, JSLIBRARY, PYTHON_MYPY>>

\* C18: parameters returns a string for a value of exactly one bit and raises
\* ValueError for every other value, the value 0 included
C18_ParametersAtomicOnly ==
    opt_result.op = "parameters"
       => IF OneBit(opt_flag) THEN opt_result.outcome = "returned"
          ELSE opt_result.outcome = "ValueError"

\* C19: from_str of a token that is in the arguments of no value raises ValueError
C19_UnknownTokenRejected ==
    (/\ opt_result.op = "from_str"
     /\ \A o \in FlagValues : \A k \in 1..Len(arguments(o)) : arguments(o)[k] # opt_tokens[1])
       => opt_result.outcome = "ValueError"

\* C20: protoc_plugin_name returns a plugin name for each of the nine one-bit flags
\* and raises for every value of more than one bit
C20_PluginNameAtomicOnly ==
    opt_result.op = "protoc_plugin_name"
       => /\ OneBit(opt_flag) => opt_result.outcome = "returned" /\ opt_result.value # None
          /\ (opt_flag # 0 /\ ~OneBit(opt_flag)) => opt_result.outcome # "returned"

(***************************************************************************)
(* Parameters of the plugins and dropped prefixes: claims                  *)
(***************************************************************************)
\* the comma-separated parts of a parameter string
parts_of(joined) == {Split(joined, ",")[k] : k \in 1..Len(Split(joined, ","))}

\* C21: the string parameters returns has readable_imports for PYTHON_PROTOPLUS,
\* library=protobuf_library and binary for JSLIBRARY, import_style=commonjs and
\* binary for JSINDIVIDUAL, whatever arguments the caller gives
C21_DefaultParameters ==
    (opt_result.op = "parameters" /\ opt_result.outcome = "returned")
       => /\ opt_flag = PYTHON_PROTOPLUS => "readable_imports" \in parts_of(opt_result.value)
          /\ opt_flag = JSLIBRARY
                => {"library=protobuf_library", "binary"} \subseteq parts_of(opt_result.value)
          /\ opt_flag = JSINDIVIDUAL
                => {"import_style=commonjs", "binary"} \subseteq parts_of(opt_result.value)

\* the components of a declared package from the first one on that is not equal to
\* a component of the root package
after_root_components(parts, root_package) ==
    SubSeq(parts,
           Least({i \in 1..(Len(parts) + 1) :
                    i = Len(parts) + 1 \/ parts[i] \notin Components(root_package)}),
           Len(parts))

\* C23: the remapped package is the root package followed by the components of the
\* declared package, without the leading ones that are equal to a component of the
\* root package; a component that is only a substring of the root package is kept
C23_DropByComponentEquality ==
    Len(pkg_out) >= 1 =>
       NonEmpty(Split(pkg_out[1], "."))
          = NonEmpty(Split(pkg_root, ".")
                     \o after_root_components(Split(pkg_decl, "."), pkg_root))

(***************************************************************************)
(* Rewriter sessions: fix_packages and the paths written                   *)
(***************************************************************************)
\* the files of the working set with a package statement
declaring_files == {f \in DOMAIN _contents : Len(package_statements(_contents[f])) > 0}

\* C24: for every file with a package statement, fix_packages leaves a package
\* statement that names the effective package the file had before the pass, and
\* the effective package computed from the rewritten text is that same package
C24_FixPackagesPreserves ==
    [][(Returned("fix_packages") /\ _contents # NoDict)
          => \A f \in declaring_files :
                \E before \in {calculated_packages(_contents, _roots, _root_package, f)} :
                   /\ calculated_packages(_contents', _roots, _root_package, f) = before
                   /\ Len(package_statements(_contents'[f])) > 0
                   /\ \E package \in {package_statements(_contents'[f])[1]} :
                         package.g1 \o package.g2 = before]_vars

\* C25: fix_packages called right after fix_packages leaves every content as the
\* first call left it
C25_FixPackagesIdempotent ==
    [][(Returned("fix_packages") /\ last.op = "fix_packages" /\ ~last.raised)
          => _contents' = _contents]_vars

\* C28: the contents fix_packages leaves are those every order of applying the
\* regexes of the distinct declared packages gives
C28_FixPackagesOrder ==
    [][(Returned("fix_packages") /\ _contents # NoDict)
          => \A order \in Orderings(unique_package_regexes(_contents)) :
                sub_packages(_root_package, order, 1, _contents) = _contents']_vars

\* C29: fix_packages changes no text that holds a declared package name only as
\* part of a longer word: the keyword of a package statement stays, and so does
\* the file name of an import statement
C29_WholeNamesOnly ==
    [][(Returned("fix_packages") /\ _contents # NoDict)
          => \A f \in DOMAIN _contents :
                \A k \in 1..Len(Lines(_contents[f])) :
                   /\ _PACKAGE(Lines(_contents[f])[k]).matched
                         => StartsWith(Lines(_contents'[f])[k], "package ")
                   /\ _IMPORT(Lines(_contents[f])[k]).matched
                         => EndsWith(Lines(_contents'[f])[k],
                                     _IMPORT(Lines(_contents[f])[k]).file \o "\";")]_vars

\* C30: write(dry_run=False) puts two distinct files of the working set at two
\* distinct paths
C30_NoOutputCollisions ==
    [][(Returned("write") /\ last'.arg = "dry_run=False")
          => \A f, g \in DOMAIN _contents : f # g => placed_at(f) # placed_at(g)]_vars

(***************************************************************************)
(* Compiler.compile and the build command: the calls made                  *)
(***************************************************************************)
\* the option lists compile is called with
CompileOptionLists ==
    {<<>>, <<"py">>, <<"plus">>, <<"jslib">>, <<"js">>, <<"all">>, <<"zzz">>,
     <<"java", "cpp">>, <<"py", "mypy">>, <<"py", "py">>, <<"java", "all">>}

\* the plugin parameters compile is called with
PluginParams == {"", "x"}

\* the exit codes of a protoc process that fails
ExitCodes == {1, 3}

\* the last protoc process of a run that may fail
MaxFailedCall == 3

\* the exit codes the protoc processes of one run give: all 0, or one of them fails
ProtocReturns ==
    {[n \in 1..Len(members(TRUE)) |-> IF n = at THEN code ELSE 0] :
        at \in 0..MaxFailedCall, code \in ExitCodes}

\* the orders a hash seed gives the strings that are put in a set of parameters
HashSeeds == Orderings((PluginParams \ {""}) \cup {"quiet", "binary"})

\* distutils' Command.copy_tree(src, dst), which passes the dry_run of the command
copy_tree(files, src, dst, dry_run) ==
    IF dry_run THEN files ELSE [files EXCEPT ![dst] = @ \cup files[src]]

\* CompileBase.redirect_build_dir: the directory protoc is given as output
redirect_build_dir(force) == IF ~force THEN "tmp" ELSE "build_lib"

\* CompileBase.run: compile into the redirected directory, copy, clean up; compile
\* is called with options, output, includes, plugin_params and quiet
run(iter_all, files, options, verbose, plugin_params, dry_run, force, protoc_returns, seed) ==
    Given(compile(iter_all, options, ~verbose, plugin_params, redirect_build_dir(force),
                  FALSE, protoc_returns, seed),
          LAMBDA done :
             Given([files EXCEPT ![redirect_build_dir(force)] = @ \cup generated(done.calls)],
                   LAMBDA built :
                      [done |-> done,
                       files |-> IF done.outcome # "returned" THEN built
                                 ELSE Given(copy_tree(built, redirect_build_dir(force),
                                                      "build_lib", dry_run),
                                            LAMBDA copied :
                                               IF ~force THEN [copied EXCEPT !["tmp"] = {}]
                                               ELSE copied)]))

InitCompile ==
    /\ opt_iter_all \in BOOLEAN
    /\ opt_tokens = <<>>
    /\ opt_result = [outcome |-> "idle", value |-> 0]
    /\ opt_flag = 0
    /\ CompileIdle
    /\ RewriterIdle
    /\ PkgIdle

\* Compiler(protoc).compile(*files, options=options, quiet=quiet,
\* plugin_params=plugin_params, output=build_lib, dry_run=dry_run)
Compile(options, quiet, plugin_params, dry_run) ==
    /\ interpreter.outcome = "idle"
    /\ \E protoc_returns \in ProtocReturns, seed \in HashSeeds :
          \E done \in {compile(opt_iter_all, options, quiet, plugin_params, "build_lib",
                               dry_run, protoc_returns, seed)} :
             /\ protoc_calls' = done.calls
             /\ interpreter' = [outcome |-> done.outcome, code |-> done.code]
             /\ files_in' = [files_in EXCEPT !["build_lib"] = @ \cup generated(done.calls)]
    /\ invocation' = [entry |-> "compile", options |-> options, quiet |-> quiet,
                      plugin_params |-> plugin_params, dry_run |-> dry_run,
                      force |-> FALSE]
    /\ UNCHANGED <<rewriter_vars, pkg_vars, opt_vars>>

\* the build command run with its options finalized
Run(options, verbose, plugin_params, dry_run, force) ==
    /\ interpreter.outcome = "idle"
    /\ \E protoc_returns \in ProtocReturns, seed \in HashSeeds :
          \E ran \in {run(opt_iter_all, files_in, options, verbose, plugin_params, dry_run,
                          force, protoc_returns, seed)} :
             /\ protoc_calls' = ran.done.calls
             /\ interpreter' = [outcome |-> ran.done.outcome, code |-> ran.done.code]
             /\ files_in' = ran.files
    /\ invocation' = [entry |-> "run", options |-> options, quiet |-> ~verbose,
                      plugin_params |-> plugin_params, dry_run |-> dry_run,
                      force |-> force]
    /\ UNCHANGED <<rewriter_vars, pkg_vars, opt_vars>>

NextCompile ==
    \/ \E options \in CompileOptionLists, quiet \in BOOLEAN, plugin_params \in PluginParams,
          dry_run \in BOOLEAN : Compile(options, quiet, plugin_params, dry_run)
    \/ \E options \in CompileOptionLists, verbose \in BOOLEAN, plugin_params \in PluginParams,
          dry_run \in BOOLEAN, force \in BOOLEAN :
             Run(options, verbose, plugin_params, dry_run, force)

SpecCompile == InitCompile /\ [][NextCompile]_vars

\* C22: a build command run with dry_run set starts no protoc process and leaves
\* no generated file in the output directory
C22_BuildDryRun ==
    (invocation.entry = "run" /\ invocation.dry_run)
       => /\ \A k \in 1..Len(protoc_calls) : ~protoc_calls[k].started
          /\ files_in["build_lib"] = {}

\* the one-bit flags of the options the tokens name, in definition order
requested_atomic(iter_all, tokens) ==
    SelectSeq(AtomicFlags, LAMBDA m : BitAnd(m, union_of(iter_all, tokens)) # 0)

\* C26: a compile that returned made one call for every one-bit flag of the
\* options requested, in definition order, each with the key <plugin name>_out
\* and a value that is the output or ends with a colon and the output; for no
\* options it made no call
C26_OneCallPerAtomicOption ==
    (invocation.entry = "compile" /\ interpreter.outcome = "returned")
       => \E expected \in {requested_atomic(opt_iter_all, invocation.options)} :
             /\ Len(protoc_calls) = Len(expected)
             /\ \A k \in 1..Len(expected) :
                   k <= Len(protoc_calls)
                      => /\ protoc_calls[k].option = expected[k]
                         /\ protoc_calls[k].key = protoc_plugin_name(expected[k]) \o "_out"
                         /\ \/ protoc_calls[k].value = "build_lib"
                            \/ EndsWith(protoc_calls[k].value, ":build_lib")

\* C27: a protoc process that gave a code other than 0 is the last call made and
\* the interpreter exited with that code; a call with dry_run set started no
\* process and the compile returned
C27_ExitCodeChecked ==
    \A k \in 1..Len(protoc_calls) :
       /\ (~protoc_calls[k].dry_run /\ protoc_calls[k].result # 0)
             => /\ k = Len(protoc_calls)
                /\ protoc_calls[k].started
                /\ interpreter = [outcome |-> "exited", code |-> protoc_calls[k].result]
       /\ protoc_calls[k].dry_run
             => /\ ~protoc_calls[k].started
                /\ interpreter.outcome = "returned"

\* C27 witness: of a compile for more than one atomic option the first protoc
\* process failed with code 3, and no second call was made
C27_Witness ==
    /\ invocation.entry = "compile"
    /\ ~invocation.dry_run
    /\ Len(requested_atomic(opt_iter_all, invocation.options)) > 1
    /\ Len(protoc_calls) = 1
    /\ protoc_calls[1].started
    /\ interpreter = [outcome |-> "exited", code |-> 3]

====
